---- MODULE Spec2Model ----
(***************************************************************************)
(* Model of optimize_images.py: the batch driver main() and the per-file   *)
(* transform optimize_image().                                             *)
(*                                                                         *)
(* File sizes are kept in bytes.  The program handles them in KB           *)
(* (bytes / 1024 as a float); dividing by a power of two is exact, so a    *)
(* sum of KB values is zero, or equal to another sum, exactly when the sum *)
(* of the byte values is.                                                  *)
(***************************************************************************)
EXTENDS Integers, Sequences, FiniteSets, TLC

\* ------------------------------------------------------------- bounds ----
MaxFiles == 3        \* directory entries per run
MaxSize == 2         \* largest file size (bytes) the environment supplies
MaxRuns == 2         \* direct calls of optimize_image on one file (SpecImage)
DimSpread == 1       \* pixels explored on each side of an anchor dimension

\* ---------------------------------------------------- program constants ---
MAX_WIDTH == 1920
MAX_HEIGHT == 1200

\* ---------------------------------------------------------- file names ---
\* A file name is a sequence of one-character strings.
Code ==
  [ch \in {".", "B", "G", "J", "P", "a", "b", "c", "g", "j", "n", "p"} |->
     CASE ch = "." -> 46 [] ch = "B" -> 66 [] ch = "G" -> 71 [] ch = "J" -> 74
       [] ch = "P" -> 80 [] ch = "a" -> 97 [] ch = "b" -> 98 [] ch = "c" -> 99
       [] ch = "g" -> 103 [] ch = "j" -> 106 [] ch = "n" -> 110
       [] ch = "p" -> 112]

LowerChar(ch) ==
  CASE ch = "B" -> "b" [] ch = "G" -> "g" [] ch = "J" -> "j" [] ch = "P" -> "p"
    [] OTHER -> ch

Lower(name) == [i \in 1..Len(name) |-> LowerChar(name[i])]

AllNames ==
  { <<"b", ".", "j", "p", "g">>, <<"a", ".", "J", "P", "G">>,
    <<"c", ".", "j", "p", "g">>, <<"B", ".", "j", "p", "g">>,
    <<"c", ".", "p", "n", "g">> }

Platforms == {"posix", "windows"}

\* Comparison key of a Path: pathlib compares Windows paths case-folded.
PathKey(p, name) == IF p = "windows" THEN Lower(name) ELSE name

RECURSIVE SeqLess(_, _)
SeqLess(s, t) ==
  IF t = <<>> THEN FALSE
  ELSE IF s = <<>> THEN TRUE
  ELSE IF Code[Head(s)] # Code[Head(t)] THEN Code[Head(s)] < Code[Head(t)]
  ELSE SeqLess(Tail(s), Tail(t))

\* The order of the Path objects of the directory, tabulated once.
PathOrder ==
  [p \in Platforms |->
     [a \in AllNames |->
        [b \in AllNames |-> SeqLess(PathKey(p, a), PathKey(p, b))]]]

PathLess(p, a, b) == PathOrder[p][a][b]

\* sorted(): stable insertion into an ascending list.
RECURSIVE Insert(_, _, _)
Insert(p, x, s) ==
  IF s = <<>> THEN <<x>>
  ELSE IF PathLess(p, x, Head(s)) THEN <<x>> \o s
  ELSE <<Head(s)>> \o Insert(p, x, Tail(s))

Unsorted(p, s) == s

RECURSIVE Sorted(_, _)
Sorted(p, s) ==
  IF s = <<>> THEN <<>>
  ELSE Insert(p, s[Len(s)], Sorted(p, SubSeq(s, 1, Len(s) - 1)))

\* Path.glob("*" + ext): the names of the listing that end with ext; the
\* match ignores case on Windows only.
EndsWith(name, ext) ==
  /\ Len(name) >= Len(ext)
  /\ SubSeq(name, Len(name) - Len(ext) + 1, Len(name)) = ext

Matches(p, name, ext) ==
  IF p = "windows" THEN EndsWith(Lower(name), Lower(ext))
  ELSE EndsWith(name, ext)

Glob(p, ls, ext) == SelectSeq(ls, LAMBDA n : Matches(p, n, ext))

ExtLower == <<".", "j", "p", "g">>
ExtUpper == <<".", "J", "P", "G">>

\* line 69: the two glob results concatenated
Discovered(p, ls) == Glob(p, ls, ExtLower) \o Glob(p, ls, ExtUpper)

\* --------------------------------------------------------------- images ---
\* What a path holds on disk.  defect: "none", "corrupt" (Image.open cannot
\* identify it), "truncated" (the header parses, the pixel data does not
\* load).  statable = FALSE is a path os.path.getsize raises on (a dangling
\* symlink, a file removed meanwhile).
Modes == {"1", "L", "LA", "P", "RGB", "RGBA", "CMYK", "I"}

\* line 28
AlphaModes == {"RGBA", "LA", "P"}

\* Modes the JPEG writer accepts (img.save raises OSError on any other).
JpegModes == {"1", "L", "RGB", "CMYK"}

\* Mode a JPEG written from a buffer of mode m decodes to.
StoredMode(m) == IF m = "1" THEN "L" ELSE m

Abs(n) == IF n < 0 THEN -n ELSE n
Max(a, b) == IF a >= b THEN a ELSE b

\* Image.thumbnail's round_aspect: of floor and ceil of num/den the one whose
\* resulting aspect ratio is nearest the original's, at least 1.  The keys
\* are floats; when they are equal as rationals either rounding can win, so
\* both are possible.  RoundWidth rounds the width for a fixed height y; the
\* key |w/h - n/y| is compared as |w*y - n*h|.
RoundWidth(w, h, y) ==
  LET f == (y * w) \div h
      c == IF (y * w) % h = 0 THEN f ELSE f + 1
      kf == Abs(w * y - f * h)
      kc == Abs(w * y - c * h)
  IN  { Max(n, 1) : n \in {m \in {f, c} : IF m = f THEN kf <= kc ELSE kc <= kf} }

\* RoundHeight rounds the height for a fixed width x; the key is 0 for n = 0
\* and |w/h - x/n| otherwise, compared as |w*n - x*h| / n.
RoundHeight(w, h, x) ==
  LET f == (x * h) \div w
      c == IF (x * h) % w = 0 THEN f ELSE f + 1
      kf == Abs(w * f - x * h) * c
      kc == Abs(w * c - x * h) * f
  IN  IF f = 0 THEN {1}
      ELSE { n \in {f, c} : IF n = f THEN kf <= kc ELSE kc <= kf }

\* The sizes of the original aspect ratio that fill the box, with no test
\* whether the image already fits.
ScaleToBox(w, h) ==
  IF MAX_WIDTH * h >= w * MAX_HEIGHT
  THEN { <<x, MAX_HEIGHT>> : x \in RoundWidth(w, h, MAX_HEIGHT) }
  ELSE { <<MAX_WIDTH, y>> : y \in RoundHeight(w, h, MAX_WIDTH) }

\* img.thumbnail((MAX_WIDTH, MAX_HEIGHT)): never enlarges.
Thumbnail(w, h) ==
  IF MAX_WIDTH >= w /\ MAX_HEIGHT >= h THEN {<<w, h>>} ELSE ScaleToBox(w, h)

NeedsResizeBoth(w, h) == w > MAX_WIDTH /\ h > MAX_HEIGHT

\* line 36
NeedsResize(w, h) == w > MAX_WIDTH \/ h > MAX_HEIGHT

ResizedForced(w, h) == ScaleToBox(w, h)

\* lines 36-37: the sizes the buffer can have after the resize step
Resized(w, h) == IF NeedsResize(w, h) THEN Thumbnail(w, h) ELSE {<<w, h>>}

NormalizedKeepAlpha(m) == IF m = "P" THEN "RGBA" ELSE m

\* lines 28-33: the mode of the buffer after the white-background paste
Normalized(m) == IF m \in AlphaModes THEN "RGB" ELSE m

NoBuffer == [mode |-> "none", width |-> 0, height |-> 0]

Buffer(m, w, h) == [mode |-> m, width |-> w, height |-> h]

\* What the path holds after img.save got as far as opening it for writing
\* and then raised: the existing file is truncated, nothing decodable is left.
Clobbered(f) ==
  [f EXCEPT !.size = 0, !.defect = "corrupt", !.mode = "RGB", !.width = 1,
            !.height = 1]

Encoded(f, buf, n) ==
  [f EXCEPT !.size = n, !.defect = "none", !.mode = StoredMode(buf.mode),
            !.width = buf.width, !.height = buf.height]

\* Sizes (bytes) a JPEG file is given by the environment or by the encoder.
Sizes == {1, MaxSize}

Outcome(ok, step, f, buf) == [ok |-> ok, step |-> step, file |-> f, enc |-> buf]

\* lines 40-55: img.save and the statistics after it.  The pixel data is
\* loaded before the path is opened for writing; opening can be refused
\* (file left alone); an unsupported mode or a write error raises after the
\* file was truncated.
Save(f, buf) ==
  IF f.defect = "truncated" THEN {Outcome(FALSE, "save", f, buf)}
  ELSE {Outcome(FALSE, "save", f, buf), Outcome(FALSE, "save", Clobbered(f), buf)}
       \cup (IF buf.mode \in JpegModes
             THEN { Outcome(f.size # 0, IF f.size # 0 THEN "done" ELSE "stats",
                            Encoded(f, buf, n), buf) : n \in Sizes }
             ELSE {})

FailedEarlyClobber(step, f) == Outcome(FALSE, step, Clobbered(f), NoBuffer)

\* lines 57-59 reached from a step before img.save: nothing was written
FailedEarly(step, f) == Outcome(FALSE, step, f, NoBuffer)

\* lines 18-59: the set of results one call can have on a path holding f.
\* step is the step that raised ("done" when none did).
optimize_image(f) ==
  IF ~f.statable THEN {FailedEarly("size", f)}
  ELSE IF f.defect = "corrupt" THEN {FailedEarly("open", f)}
  ELSE IF f.mode \in AlphaModes /\ f.defect = "truncated"
  THEN {FailedEarly("convert", f)}
  ELSE IF NeedsResize(f.width, f.height) /\ f.defect = "truncated"
  THEN {FailedEarly("resize", f)}
  ELSE UNION { Save(f, Buffer(Normalized(f.mode), d[1], d[2])) :
                 d \in Resized(f.width, f.height) }

\* ------------------------------------------------------ the environment ---
File(st, sz, df, m, w, h) ==
  [statable |-> st, size |-> sz, defect |-> df, mode |-> m, width |-> w,
   height |-> h]

Good(sz) == File(TRUE, sz, "none", "RGB", 2000, 1500)
Empty == File(TRUE, 0, "corrupt", "RGB", 1, 1)
Dangling == File(FALSE, 0, "corrupt", "RGB", 1, 1)

\* Directory entries of the batch runs.
BatchFiles == {Good(MaxSize), Empty, Dangling}

Anchors == {MAX_HEIGHT, 1500, MAX_WIDTH, 2000, 2 * MAX_HEIGHT, 2 * MAX_WIDTH}

Dims ==
  (1..(1 + DimSpread)) \cup
  UNION { (a - DimSpread)..(a + DimSpread) : a \in Anchors }

\* Files of the single-image runs.
ImageFiles ==
  { File(TRUE, MaxSize, df, m, w, h) :
      df \in {"none", "truncated"}, m \in Modes, w \in Dims, h \in Dims }
  \cup {Empty, Dangling}

Perms(S) ==
  { s \in [1..Cardinality(S) -> S] : \A i, j \in 1..Cardinality(S) :
                                        i # j => s[i] # s[j] }

\* A directory of a case-insensitive file system holds no two names that
\* differ in case only.
Coexist(p, S) ==
  p = "windows" => \A a, b \in S : Lower(a) = Lower(b) => a = b

\* ---------------------------------------------------------------- state ---
\* platform        "posix" or "windows": decides how Path.glob matches and how
\*                 Path objects compare
\* disk            the Pictures directory: file name -> what the path holds
\* disk0           the directory as it was before the run (history)
\* listing         the order in which the file system returns the entries
\* image_files     line 69
\* work, idx       sorted(image_files) and the position of the loop of line 83
\* successful, total_original, total_new     lines 79-81
\* pc              "start", "loop", "done", "crashed" (an exception left main);
\*                 "call" in the runs that call optimize_image directly
\* fault           the exception that left main, "none" otherwise
\* report          what main printed: "no_images" (line 72), "found" (75),
\*                 "counts" (98), "totals" (99), "saved" (100), "push" (102)
\* log             one entry per call of optimize_image, in call order
\*                 (history): the file before and after, the result, the step
\*                 that raised, the buffer handed to img.save
VARIABLES platform, disk, disk0, listing, image_files, work, idx, successful,
          total_original, total_new, pc, fault, report, log

vars == <<platform, disk, disk0, listing, image_files, work, idx, successful,
          total_original, total_new, pc, fault, report, log>>

Init ==
  /\ platform \in Platforms
  /\ \E S \in SUBSET AllNames :
       /\ Cardinality(S) <= MaxFiles
       /\ Coexist(platform, S)
       /\ disk \in [S -> BatchFiles]
       /\ listing \in Perms(S)
  /\ disk0 = disk
  /\ image_files = <<>>
  /\ work = <<>>
  /\ idx = 0
  /\ successful = 0
  /\ total_original = 0
  /\ total_new = 0
  /\ pc = "start"
  /\ fault = "none"
  /\ report = <<>>
  /\ log = <<>>

NeverEmpty(files) == FALSE

\* line 71
NoImages(files) == files = <<>>

\* lines 63-81 of main
Discover ==
  /\ pc = "start"
  /\ image_files' = Discovered(platform, listing)
  /\ \/ /\ NoImages(image_files')
        /\ report' = <<"no_images">>
        /\ pc' = "done"
        /\ UNCHANGED <<work, idx>>
     \/ /\ ~NoImages(image_files')
        /\ report' = <<"found">>
        /\ work' = Sorted(platform, image_files')
        /\ idx' = 1
        /\ pc' = "loop"
  /\ UNCHANGED <<platform, disk, disk0, listing, successful, total_original,
                 total_new, fault, log>>

LogEntry(name, f, r) ==
  [name |-> name, before |-> f, after |-> r.file, ok |-> r.ok,
   step |-> r.step, enc |-> r.enc]

\* lines 83-92 of main: one iteration of the loop
Iterate ==
  /\ pc = "loop"
  /\ idx <= Len(work)
  /\ LET name == work[idx]
         f == disk[name]
     IN  \/ /\ ~f.statable
            /\ pc' = "crashed"
            /\ fault' = "OSError"
            /\ UNCHANGED <<disk, idx, successful, total_original, total_new,
                           log>>
         \/ /\ f.statable
            /\ total_original' = total_original + f.size
            /\ \E r \in optimize_image(f) :
                 /\ disk' = [disk EXCEPT ![name] = r.file]
                 /\ log' = Append(log, LogEntry(name, f, r))
                 /\ IF r.ok
                    THEN /\ successful' = successful + 1
                         /\ total_new' = total_new + r.file.size
                    ELSE UNCHANGED <<successful, total_new>>
            /\ idx' = idx + 1
            /\ UNCHANGED <<pc, fault>>
  /\ UNCHANGED <<platform, disk0, listing, image_files, work, report>>

\* lines 94-102 of main
Summarize ==
  /\ pc = "loop"
  /\ idx > Len(work)
  /\ \/ /\ total_original = 0
        /\ report' = report \o <<"counts", "totals">>
        /\ pc' = "crashed"
        /\ fault' = "ZeroDivisionError"
     \/ /\ total_original # 0
        /\ report' = report \o <<"counts", "totals", "saved", "push">>
        /\ pc' = "done"
        /\ UNCHANGED fault
  /\ UNCHANGED <<platform, disk, disk0, listing, image_files, work, idx,
                 successful, total_original, total_new, log>>

Next == Discover \/ Iterate \/ Summarize

Spec == Init /\ [][Next]_vars

\* ------------------------------------------- single calls of the transform
ImageName == <<"b", ".", "j", "p", "g">>

ImageInit ==
  /\ platform = "posix"
  /\ disk \in [{ImageName} -> ImageFiles]
  /\ disk0 = disk
  /\ listing = <<ImageName>>
  /\ image_files = <<>>
  /\ work = <<>>
  /\ idx = 0
  /\ successful = 0
  /\ total_original = 0
  /\ total_new = 0
  /\ pc = "call"
  /\ fault = "none"
  /\ report = <<>>
  /\ log = <<>>

\* optimize_image(path), called on its own
Call ==
  /\ pc = "call"
  /\ Len(log) < MaxRuns
  /\ \E r \in optimize_image(disk[ImageName]) :
       /\ disk' = [disk EXCEPT ![ImageName] = r.file]
       /\ log' = Append(log, LogEntry(ImageName, disk[ImageName], r))
  /\ UNCHANGED <<platform, disk0, listing, image_files, work, idx, successful,
                 total_original, total_new, pc, fault, report>>

ImageNext == Call

SpecImage == ImageInit /\ [][ImageNext]_vars

\* --------------------------------------------------------------- claims ---
Names(sq) == {sq[i] : i \in 1..Len(sq)}

Calls == [i \in 1..Len(log) |-> log[i].name]

Occurrences(sq, x) == Cardinality({i \in 1..Len(sq) : sq[i] = x})

RECURSIVE SumPre(_)
SumPre(lg) ==
  IF lg = <<>> THEN 0
  ELSE (IF Head(lg).ok THEN Head(lg).before.size ELSE 0) + SumPre(Tail(lg))

RECURSIVE SumPost(_)
SumPost(lg) ==
  IF lg = <<>> THEN 0
  ELSE (IF Head(lg).ok THEN Head(lg).after.size ELSE 0) + SumPost(Tail(lg))

RunEnded == pc \in {"done", "crashed"}

\* The names of the directory that are JPEG files by extension.
Matching == {n \in DOMAIN disk : Matches(platform, n, ExtLower)}

EarlySteps == {"size", "open", "convert", "resize"}

ReachedSave(e) == e.enc # NoBuffer

Oversize(f) == f.width > MAX_WIDTH \/ f.height > MAX_HEIGHT

\* C1: failure isolation.  optimize_image returns failure exactly for the
\* files whose transform raised, main attempts every discovered file even
\* after a failing one, and when the run ends the succeeded count is the
\* number of files whose transform did not fail.
C1_FailureIsolation ==
  /\ \A i \in 1..Len(log) : log[i].ok <=> log[i].step = "done"
  /\ (RunEnded /\ image_files # <<>>) =>
       /\ Names(image_files) \subseteq Names(Calls)
       /\ successful =
            Cardinality({n \in Names(image_files) :
                           \E i \in 1..Len(log) : log[i].name = n /\ log[i].ok})

\* C2: total_original is the sum of the pre-transform sizes of the files
\* whose transform succeeded, total_new the sum of their post-transform
\* sizes; a failed file contributes to neither.
C2_TotalsOnlySucceeded ==
  /\ total_original = SumPre(log)
  /\ total_new = SumPost(log)

\* C3: nothing is fatal: whatever the files, their sizes and their outcomes,
\* main never ends in an uncaught fault.
C3_NothingFatal == pc # "crashed" /\ fault = "none"

\* C4: when discovery finds no matching file, main reports "no images found"
\* and is done: optimize_image was not invoked, no file was touched, the
\* space-saved percentage was not evaluated, nothing raised, attempted = 0.
C4_EmptyDirectory ==
  (pc # "start" /\ image_files = <<>>) =>
    /\ pc = "done"
    /\ report = <<"no_images">>
    /\ log = <<>>
    /\ disk = disk0
    /\ fault = "none"
    /\ Len(image_files) = 0

C4_Witness ==
  /\ pc = "done"
  /\ image_files = <<>>
  /\ report = <<"no_images">>
  /\ DOMAIN disk # {}

\* C5: the work list holds no path twice, and when the run ends
\* optimize_image was invoked exactly once per distinct matching file and
\* the attempted count is the number of distinct matching files.
C5_Deduplicated ==
  /\ \A n \in Names(work) : Occurrences(work, n) = 1
  /\ (RunEnded /\ image_files # <<>>) =>
       /\ \A n \in Matching : Occurrences(Calls, n) = 1
       /\ Len(image_files) = Cardinality(Matching)

\* C6: whatever order the listing has, optimize_image is invoked on the files
\* in ascending order of file name, one file's processing complete before
\* the next begins, and a loop that ran to its end processed every
\* discovered file.
C6_Ordering ==
  /\ \A i, j \in 1..Len(log) :
       i < j => ~PathLess(platform, log[j].name, log[i].name)
  /\ pc = "loop" => Len(log) = idx - 1
  /\ (pc = "loop" /\ idx > Len(work)) =>
       \A n \in Names(image_files) :
         Occurrences(Calls, n) = Occurrences(image_files, n)

Position(sq, x) == CHOOSE i \in 1..Len(sq) : sq[i] = x

C6_Witness ==
  /\ Len(log) >= 3
  /\ log[1].name # log[2].name
  /\ log[2].name # log[3].name
  /\ Position(listing, log[1].name) > Position(listing, log[2].name)

\* C7: a call of optimize_image that fails in a step before the save (size
\* read, decode, mode normalization, downsampling) leaves the file as it
\* was; only a call that reached the save step changes the file.
C7_NoWriteBeforeSave ==
  \A i \in 1..Len(log) :
    /\ log[i].step \in EarlySteps => ~log[i].ok /\ log[i].after = log[i].before
    /\ log[i].after # log[i].before => ReachedSave(log[i])

C7_Witness ==
  /\ \E i \in 1..Len(log) :
       log[i].step \in {"convert", "resize"} /\ log[i].after = log[i].before
  /\ disk = disk0

\* The original aspect ratio scaled into the box, to one pixel: with
\* s = min(MAX_WIDTH / w, MAX_HEIGHT / h), |ow - w*s| <= 1 and |oh - h*s| <= 1.
WithinOnePixel(w, h, ow, oh) ==
  IF MAX_HEIGHT * w <= MAX_WIDTH * h
  THEN Abs(ow * h - w * MAX_HEIGHT) <= h /\ Abs(oh - MAX_HEIGHT) <= 1
  ELSE Abs(ow - MAX_WIDTH) <= 1 /\ Abs(oh * w - h * MAX_WIDTH) <= w

\* C8: an image wider than MAX_WIDTH or higher than MAX_HEIGHT is saved with
\* width <= MAX_WIDTH and height <= MAX_HEIGHT, its dimensions the original
\* aspect ratio scaled into the box to within one pixel.
C8_Downsample ==
  \A i \in 1..Len(log) :
    (ReachedSave(log[i]) /\ Oversize(log[i].before)) =>
      /\ log[i].enc.width <= MAX_WIDTH
      /\ log[i].enc.height <= MAX_HEIGHT
      /\ WithinOnePixel(log[i].before.width, log[i].before.height,
                        log[i].enc.width, log[i].enc.height)
      /\ log[i].ok => /\ log[i].after.width = log[i].enc.width
                      /\ log[i].after.height = log[i].enc.height

C8_Witness ==
  \E i \in 1..Len(log) :
    /\ log[i].ok
    /\ log[i].before.width > MAX_WIDTH
    /\ log[i].before.height <= MAX_HEIGHT
    /\ log[i].after.width = MAX_WIDTH

\* C9: an image within MAX_WIDTH x MAX_HEIGHT keeps its width and height, and
\* a later call on a file optimize_image has already optimized never changes
\* the dimensions again.
C9_CeilingIdempotent ==
  /\ \A i \in 1..Len(log) :
       (ReachedSave(log[i]) /\ ~Oversize(log[i].before)) =>
         /\ log[i].enc.width = log[i].before.width
         /\ log[i].enc.height = log[i].before.height
  /\ \A i, j \in 1..Len(log) :
       (i < j /\ log[i].ok /\ log[j].ok) =>
         /\ log[j].after.width = log[i].after.width
         /\ log[j].after.height = log[i].after.height

C9_Witness ==
  /\ Len(log) >= 2
  /\ log[1].ok
  /\ log[2].ok
  /\ Oversize(log[1].before)
  /\ log[2].after.width = log[1].after.width
  /\ log[1].after.width # log[1].before.width

\* C10 as stated: whatever mode the decoded image has, the buffer handed to
\* the JPEG encoder is in mode RGB.
C10_EncoderInputRGB ==
  \A i \in 1..Len(log) : ReachedSave(log[i]) => log[i].enc.mode = "RGB"

\* C10 as amended: an RGBA, LA or P image reaches the encoder as an RGB
\* buffer, of the same dimensions when no downsampling applies; an image of
\* any other mode reaches the encoder in the mode it was decoded in.
C10_AlphaToRGB ==
  \A i \in 1..Len(log) :
    ReachedSave(log[i]) =>
      /\ log[i].before.mode \in AlphaModes => log[i].enc.mode = "RGB"
      /\ log[i].before.mode \notin AlphaModes =>
           log[i].enc.mode = log[i].before.mode
      /\ ~Oversize(log[i].before) =>
           /\ log[i].enc.width = log[i].before.width
           /\ log[i].enc.height = log[i].before.height

C10_Witness ==
  \E i \in 1..Len(log) :
    log[i].before.mode = "P" /\ log[i].ok /\ log[i].enc.mode = "RGB"

====
